---- MODULE Spec2Model ----
(***************************************************************************)
(* A model of clustering.py: the Feature Aggregator (data_gen,             *)
(* avg_monthly_values), the k-means functions (dist,                       *)
(* find_closest_centroids, compute_centroids, compute_distortion) and the  *)
(* clustering loop of main.                                                *)
(*                                                                         *)
(* Python lists are sequences; the code's 0-based positions are kept as    *)
(* values (a centroid index 0 is the first centroid) and shifted by one    *)
(* where a sequence is indexed.  A call either returns a value or raises   *)
(* an exception; an uncaught exception ends the run, and its name is the   *)
(* position the run stopped at.  The distortion is computed in the         *)
(* arithmetic of doubles, rounding by rounding.                            *)
(***************************************************************************)
EXTENDS Integers, Sequences, FiniteSets

VARIABLES
    \* data_gen (SpecGen)
    f,              \* the rows of the open data file, in file order
    pos,            \* how many rows the for loop has fetched
    curr_station,   \* data_gen's curr_station
    curr_values,    \* data_gen's curr_values
    yielded,        \* the pairs the generator has yielded, in order
    station_ids,    \* the keys of the dictionary data_gen was given
    gen_pc,         \* where the generator is: "created" (not started),
                    \* "reading" (running the for loop), "yielded"
                    \* (suspended at the yield of line 58, the consumer
                    \* running), "done", "closed" or the exception that
                    \* ended it
    \* the clustering loop of main (Spec)
    monthly_data,   \* the rows [station id, feature, ...] of main
    centroids,      \* main's centroids
    indices,        \* main's indices (<<>> before the first pass)
    verbose,        \* main's verbose
    iter,           \* the passes of the for loop completed
    printed,        \* the last "Distortion:" value printed (a double), if any
    pc,             \* "loop", "done" or the exception that ended the run
    \* one call of a k-means function (SpecFn)
    call            \* the call made: the function, its arguments, its outcome

gen_vars == <<f, pos, curr_station, curr_values, yielded, station_ids, gen_pc>>
main_vars == <<monthly_data, centroids, indices, verbose, iter, printed, pc>>
vars == <<gen_vars, main_vars, call>>

(***************************************************************************)
(* Program constants.                                                      *)
(***************************************************************************)
MIN_YEAR == 1981
MAX_YEAR == 2010
MIN_NUM_VALUES == 20
MISSING == -9999
NumMonths == 12
NumIterations == 100

(***************************************************************************)
(* Bounds of the model.                                                    *)
(***************************************************************************)
MaxGroups == 2
\* The clustering loop: stations, feature values 0..MaxCoord, clusters.
NumStations == 4
MaxCoord == 3
k == 3
\* Single calls: rows, feature values 0..FnMaxCoord, centroids.
FindMaxRows == 2
ComputeMaxRows == 3
FnMaxCoord == 1
FnMaxK == 2
\* the loop on the plane: the largest coordinate
PlaneMaxCoord == 2

(***************************************************************************)
(* The outcome of a call: the value it returns or the exception it raises. *)
(***************************************************************************)
Return(v) == [returned |-> v]
Raise(name) == [raised |-> name]
Raised(r) == "raised" \in DOMAIN r

(***************************************************************************)
(* Arithmetic helpers.                                                     *)
(***************************************************************************)
RECURSIVE SumSeq(_)
SumSeq(s) == IF s = <<>> THEN 0 ELSE Head(s) + SumSeq(Tail(s))

\* A round-to-zero variant of PyRound (what int(float(x)/n) would give).
PyTruncate(x, n) == IF x >= 0 THEN x \div n ELSE -((-x) \div n)

\* int(round(float(x)/n)) for n > 0: Python 2's round goes to the nearest
\* integer and takes a half away from zero.
PyRound(x, n) ==
    IF x >= 0 THEN (2 * x + n) \div (2 * n)
              ELSE -((2 * (-x) + n) \div (2 * n))

\* [x for x in l if x != -9999]
RECURSIVE NonMissing(_)
NonMissing(l) ==
    IF l = <<>> THEN <<>>
    ELSE IF Head(l) # MISSING THEN <<Head(l)>> \o NonMissing(Tail(l))
         ELSE NonMissing(Tail(l))

\* zip(*ls): one list per position, as long as the shortest row.
MinLen(ls) ==
    IF ls = <<>> THEN 0
    ELSE CHOOSE n \in {Len(ls[i]) : i \in 1..Len(ls)} :
             \A i \in 1..Len(ls) : n <= Len(ls[i])

Zip(ls) == [m \in 1..MinLen(ls) |-> [i \in 1..Len(ls) |-> ls[i][m]]]

\* A variant of avg_monthly_values that keeps the sentinel in the count.
avg_counting_missing(ls) ==
    LET cols == Zip(ls)
        vals == [m \in 1..Len(cols) |-> NonMissing(cols[m])]
    IN  IF \E m \in 1..Len(vals) : vals[m] = <<>>
        THEN Raise("ZeroDivisionError")
        ELSE Return([m \in 1..Len(vals) |->
                        PyRound(SumSeq(vals[m]), Len(cols[m]))])

\* avg_monthly_values(ls): the rounded mean of the non-missing readings of
\* each position; len(l) = 0 at some position raises ZeroDivisionError.
avg_monthly_values(ls) ==
    LET cols == Zip(ls)
        vals == [m \in 1..Len(cols) |-> NonMissing(cols[m])]
    IN  IF \E m \in 1..Len(vals) : vals[m] = <<>>
        THEN Raise("ZeroDivisionError")
        ELSE Return([m \in 1..Len(vals) |->
                        PyRound(SumSeq(vals[m]), Len(vals[m]))])

(***************************************************************************)
(* data_gen.  A row of the file is modelled parsed: its station id         *)
(* (row[:11]), its year (int(row[11:15])) and its monthly values           *)
(* (parse_monthly_values(row)).                                            *)
(***************************************************************************)
\* The keys of the station dictionary main passes to data_gen.
stationid_latlons == {"A", "B"}

\* Stations that occur in a file; "X" is in no station dictionary.
Stations == {"A", "B", "X"}

\* The test of line 61: the row is appended to curr_values.  It reads the
\* dictionary as it is when the test is made.
in_window(station_id, yr) ==
    station_id \in station_ids /\ MIN_YEAR <= yr /\ yr <= MAX_YEAR

\* A variant of the flush test that lets the threshold itself through.
flush_at_threshold(station, values) ==
    station # "" /\ Len(values) >= MIN_NUM_VALUES

\* The test of line 57: the station that just ended is averaged and yielded.
flush(station, values) ==
    station # "" /\ Len(values) > MIN_NUM_VALUES

(***************************************************************************)
(* The files of the model: up to MaxGroups runs of rows, each run of one   *)
(* station and one of five shapes chosen around the threshold.             *)
(***************************************************************************)
Shapes == {"full", "threshold", "gappy", "blank", "sparse"}

\* Rows of the run that lie in the window.
InRows(shape) ==
    CASE shape = "full"      -> MIN_NUM_VALUES + 1
      [] shape = "threshold" -> MIN_NUM_VALUES
      [] shape = "gappy"     -> MIN_NUM_VALUES + 1
      [] shape = "blank"     -> MIN_NUM_VALUES + 1
      [] shape = "sparse"    -> 1

\* The run's rows are in year order: one year before the window, the
\* window's years from its first to its last, one year after the window.
RunYears(shape) ==
    LET n == InRows(shape)
        inside == [i \in 1..n |-> IF i = n /\ n > 1 THEN MAX_YEAR
                                  ELSE MIN_YEAR + i - 1]
    IN  IF shape = "threshold"
        THEN <<MIN_YEAR - 1>> \o inside \o <<MAX_YEAR + 1>>
        ELSE inside

\* The reading of month m in the i-th row of a run.
Reading(shape, i, m) ==
    CASE shape = "blank" /\ m = 1            -> MISSING
      [] shape = "gappy" /\ m = 1 /\ i # 2   -> MISSING
      [] shape = "gappy" /\ m = 2 /\ i % 2 = 0 -> MISSING
      [] OTHER -> 40 * m - 7 * i - 100 + ((i * m) % 4)

Run(station, shape) ==
    LET yrs == RunYears(shape)
    IN  [i \in 1..Len(yrs) |->
            [station_id |-> station, yr |-> yrs[i],
             vals |-> [m \in 1..NumMonths |-> Reading(shape, i, m)]]]

Runs == {Run(s, sh) : s \in Stations, sh \in Shapes}

RECURSIVE Files(_)
Files(n) ==
    IF n = 0 THEN {<<>>}
    ELSE LET shorter == Files(n - 1)
         IN  shorter \cup {file \o r : file \in shorter, r \in Runs}

\* The variables of the clustering loop and of the single calls, at rest.
MainIdle ==
    /\ monthly_data = <<>> /\ centroids = <<>> /\ indices = <<>>
    /\ verbose = FALSE /\ iter = 0 /\ printed = <<>> /\ pc = "idle"

CallIdle == call = [fn |-> "none"]

GenIdle ==
    /\ f = <<>> /\ pos = 0 /\ curr_station = "" /\ curr_values = <<>>
    /\ yielded = <<>> /\ station_ids = {} /\ gen_pc = "idle"

\* data_gen(filename, station_ids) has been called: the generator exists and
\* none of its body has run.
InitGen ==
    /\ f \in Files(MaxGroups)
    /\ pos = 0
    /\ curr_station = ""
    /\ curr_values = <<>>
    /\ yielded = <<>>
    /\ station_ids = stationid_latlons
    /\ gen_pc = "created"
    /\ MainIdle
    /\ CallIdle

\* The consumer's first next(): the file is opened and curr_station and
\* curr_values are set (lines 50-52).
Start ==
    /\ gen_pc = "created"
    /\ gen_pc' = "reading"
    /\ UNCHANGED <<f, pos, curr_station, curr_values, yielded, station_ids,
                   main_vars, call>>

\* One pass of the for loop over the next row, where the station that ended
\* (if one did) has nothing to yield: lines 53-62 with the test of line 57
\* false.
ReadRow ==
    /\ gen_pc = "reading"
    /\ pos < Len(f)
    /\ LET row == f[pos + 1]
           changed == row.station_id # curr_station
           kept == IF changed THEN <<>> ELSE curr_values
       IN  /\ ~(changed /\ flush(curr_station, curr_values))
           /\ curr_station' = row.station_id
           /\ curr_values' = IF in_window(row.station_id, row.yr)
                             THEN Append(kept, row.vals)
                             ELSE kept
           /\ pos' = pos + 1
    /\ UNCHANGED <<f, yielded, station_ids, gen_pc, main_vars, call>>

\* The first part of a pass where the station that ended is yielded (lines
\* 53-58): the row of the next station is fetched, the pair is handed to the
\* consumer and the generator is suspended, curr_station and curr_values
\* still those of the station that ended.
Yield ==
    /\ gen_pc = "reading"
    /\ pos < Len(f)
    /\ f[pos + 1].station_id # curr_station
    /\ flush(curr_station, curr_values)
    /\ LET avg == avg_monthly_values(curr_values)
       IN  /\ ~Raised(avg)
           /\ yielded' = Append(yielded, <<curr_station, avg.returned>>)
    /\ pos' = pos + 1
    /\ gen_pc' = "yielded"
    /\ UNCHANGED <<f, curr_station, curr_values, station_ids, main_vars, call>>

\* The same part where avg_monthly_values raises: the row of the next
\* station is fetched, and the exception leaves the generator and ends the
\* run.
ReadRowRaises ==
    /\ gen_pc = "reading"
    /\ pos < Len(f)
    /\ f[pos + 1].station_id # curr_station
    /\ flush(curr_station, curr_values)
    /\ Raised(avg_monthly_values(curr_values))
    /\ pos' = pos + 1
    /\ gen_pc' = "ZeroDivisionError"
    /\ UNCHANGED <<f, curr_station, curr_values, yielded, station_ids,
                   main_vars, call>>

\* The consumer's next() after a pair: the pass goes on with the row in
\* hand (lines 59-62).
Resume ==
    /\ gen_pc = "yielded"
    /\ LET row == f[pos]
       IN  /\ curr_station' = row.station_id
           /\ curr_values' = IF in_window(row.station_id, row.yr)
                             THEN <<row.vals>>
                             ELSE <<>>
    /\ gen_pc' = "reading"
    /\ UNCHANGED <<f, pos, yielded, station_ids, main_vars, call>>

\* The consumer stops (close(), or the generator is collected) while the
\* generator is suspended: the rest of the body never runs.
Close ==
    /\ gen_pc \in {"created", "yielded"}
    /\ gen_pc' = "closed"
    /\ UNCHANGED <<f, pos, curr_station, curr_values, yielded, station_ids,
                   main_vars, call>>

\* The consumer deletes a key of the dictionary between a pair and the
\* next() that follows it.
Delete ==
    /\ gen_pc = "yielded"
    /\ \E s \in station_ids : station_ids' = station_ids \ {s}
    /\ UNCHANGED <<f, pos, curr_station, curr_values, yielded, gen_pc,
                   main_vars, call>>

\* The file is exhausted: the for loop ends and the generator returns.
EndOfFile ==
    /\ gen_pc = "reading"
    /\ pos = Len(f)
    /\ gen_pc' = "done"
    /\ UNCHANGED <<f, pos, curr_station, curr_values, yielded, station_ids,
                   main_vars, call>>

NextGen ==
    \/ Start \/ ReadRow \/ Yield \/ ReadRowRaises \/ Resume \/ EndOfFile
    \/ Close \/ Delete

SpecGen == InitGen /\ [][NextGen]_vars

(***************************************************************************)
(* The k-means functions.  A row of monthly_data is <<id, x1, ..., xn>>.   *)
(***************************************************************************)
\* row[1:]
Features(row) == Tail(row)

Min2(a, b) == IF a <= b THEN a ELSE b

(***************************************************************************)
(* The floating-point arithmetic of dist and compute_distortion.  A double *)
(* is the record [mant |-> m, exp |-> e] of the value m * 2^e; m is a      *)
(* natural number of at most DBL_MANT_DIG binary digits, written as the    *)
(* sequence of its digits in base Limb, the lowest first (<<>> is 0).      *)
(***************************************************************************)
DBL_MANT_DIG == 53
LimbBits == 15
Limb == 2^LimbBits
DivShift == 75

\* The natural number n.
RECURSIVE BigFromInt(_)
BigFromInt(n) == IF n = 0 THEN <<>> ELSE <<n % Limb>> \o BigFromInt(n \div Limb)

\* a without its leading zero limbs.
RECURSIVE Trim(_)
Trim(a) ==
    IF a = <<>> \/ a[Len(a)] # 0 THEN a ELSE Trim(SubSeq(a, 1, Len(a) - 1))

Digit(a, i) == IF i <= Len(a) THEN a[i] ELSE 0

RECURSIVE AddFrom(_, _, _, _)
AddFrom(a, b, i, c) ==
    IF i > Len(a) /\ i > Len(b) THEN (IF c = 0 THEN <<>> ELSE <<c>>)
    ELSE LET s == Digit(a, i) + Digit(b, i) + c
         IN  <<s % Limb>> \o AddFrom(a, b, i + 1, s \div Limb)

\* a + b
BigAdd(a, b) == Trim(AddFrom(a, b, 1, 0))

RECURSIVE SubFrom(_, _, _, _)
SubFrom(a, b, i, borrow) ==
    IF i > Len(a) THEN <<>>
    ELSE LET d == a[i] - Digit(b, i) - borrow
         IN  <<d % Limb>> \o SubFrom(a, b, i + 1, IF d < 0 THEN 1 ELSE 0)

\* a - b, for a >= b
BigSub(a, b) == Trim(SubFrom(a, b, 1, 0))

RECURSIVE LessFrom(_, _, _)
LessFrom(a, b, i) ==
    IF i = 0 THEN FALSE
    ELSE IF a[i] # b[i] THEN a[i] < b[i] ELSE LessFrom(a, b, i - 1)

\* a < b
BigLess(a, b) ==
    IF Len(a) # Len(b) THEN Len(a) < Len(b) ELSE LessFrom(a, b, Len(a))

RECURSIVE MulSmallFrom(_, _, _, _)
MulSmallFrom(a, d, i, c) ==
    IF i > Len(a) THEN (IF c = 0 THEN <<>> ELSE <<c>>)
    ELSE LET p == a[i] * d + c
         IN  <<p % Limb>> \o MulSmallFrom(a, d, i + 1, p \div Limb)

\* a * d, for a limb d (or Limb itself)
BigMulSmall(a, d) == IF d = 0 THEN <<>> ELSE MulSmallFrom(a, d, 1, 0)

Zeros(n) == [i \in 1..n |-> 0]

RECURSIVE MulFrom(_, _, _)
MulFrom(a, b, i) ==
    IF i > Len(b) THEN <<>>
    ELSE BigAdd(Zeros(i - 1) \o BigMulSmall(a, b[i]), MulFrom(a, b, i + 1))

\* a * b
BigMul(a, b) == MulFrom(a, b, 1)

RECURSIVE DivSmallFrom(_, _, _, _)
DivSmallFrom(a, d, i, r) ==
    IF i = 0 THEN [quot |-> <<>>, rem |-> r]
    ELSE LET cur == r * Limb + a[i]
             rest == DivSmallFrom(a, d, i - 1, cur % d)
         IN  [quot |-> rest.quot \o <<cur \div d>>, rem |-> rest.rem]

\* The quotient and the remainder of a by d, 0 < d <= Limb.
BigDivSmall(a, d) ==
    LET qr == DivSmallFrom(a, d, Len(a), 0)
    IN  [quot |-> Trim(qr.quot), rem |-> qr.rem]

\* a * 2^n
BigShl(a, n) ==
    IF a = <<>> THEN <<>>
    ELSE Zeros(n \div LimbBits) \o BigMulSmall(a, 2^(n % LimbBits))

\* a \div 2^n
BigShr(a, n) ==
    LET drop == n \div LimbBits
    IN  IF drop >= Len(a) THEN <<>>
        ELSE BigDivSmall(SubSeq(a, drop + 1, Len(a)), 2^(n % LimbBits)).quot

\* The number of binary digits of a limb, and of a.
SmallBitLen(x) ==
    CHOOSE n \in 0..LimbBits : x < 2^n /\ (n = 0 \/ x >= 2^(n - 1))

BitLen(a) ==
    IF a = <<>> THEN 0 ELSE LimbBits * (Len(a) - 1) + SmallBitLen(a[Len(a)])

IsOdd(a) == a # <<>> /\ a[1] % 2 = 1

\* The number of zero binary digits at the end of a # 0, from limb i on.
RECURSIVE TrailingZeros(_, _)
TrailingZeros(a, i) ==
    IF a[i] = 0 THEN LimbBits + TrailingZeros(a, i + 1)
    ELSE CHOOSE n \in 0..(LimbBits - 1) : a[i] % 2^(n + 1) = 2^n

\* The double m * 2^e, for m below 2^53, in the one form a value has: an
\* odd significand, or zero as <<>> * 2^0.
Double(m, e) ==
    IF m = <<>> THEN [mant |-> <<>>, exp |-> 0]
    ELSE LET tz == TrailingZeros(m, 1)
         IN  [mant |-> BigShr(m, tz), exp |-> e + tz]

\* The doubles on either side of the real (m + t) * 2^e, 0 <= t < 1, where
\* sticky tells that t > 0: whether the real is a double itself (exact),
\* the side of the midpoint it is on (tie), whether the double below has an
\* even significand, and whether the real is within 1/32 of the gap from
\* the midpoint (near).
Neighbours(m, e, sticky) ==
    LET d == BitLen(m) - DBL_MANT_DIG
    IN  IF d <= 0
        THEN [exact |-> TRUE, below |-> Double(m, e), above |-> Double(m, e),
              tie |-> 0, even |-> TRUE, near |-> FALSE]
        ELSE LET q == BigShr(m, d)
                 r == BigSub(m, BigShl(q, d))
                 half == BigShl(<<1>>, d - 1)
                 top == BigShr(BigMulSmall(r, 32), d)
             IN  [exact |-> r = <<>> /\ ~sticky,
                  below |-> Double(q, e + d),
                  above |-> Double(BigAdd(q, <<1>>), e + d),
                  tie |-> IF BigLess(r, half) THEN -1
                          ELSE IF r = half /\ ~sticky THEN 0 ELSE 1,
                  even |-> ~IsOdd(q),
                  near |-> top \in {<<15>>, <<16>>}]

\* The real rounded to the nearest double, a tie to the even significand:
\* the rounding of the arithmetic of IEEE 754.
Nearest(m, e, sticky) ==
    LET n == Neighbours(m, e, sticky)
    IN  IF n.exact THEN n.below
        ELSE IF n.tie < 0 THEN n.below
        ELSE IF n.tie > 0 THEN n.above
        ELSE IF n.even THEN n.below ELSE n.above

\* float(n), for a natural number n
float(n) == Nearest(BigFromInt(n), 0, FALSE)

\* The integer part of the square root of x, found bit by bit.
RECURSIVE IsqrtFrom(_, _, _)
IsqrtFrom(x, r, b) ==
    IF b = 0 THEN r
    ELSE IsqrtFrom(x, IF r + b <= 46340 /\ (r + b) * (r + b) <= x THEN r + b ELSE r,
                   b \div 2)

Isqrt(x) == IsqrtFrom(x, 0, 32768)

\* One more binary digit of a square root: st is <<root, remainder>>, and
\* n digits more.
SqrtDigit(st) ==
    LET rem4 == BigMulSmall(st[2], 4)
        cand == BigAdd(BigMulSmall(st[1], 4), <<1>>)
    IN  IF BigLess(rem4, cand)
        THEN <<BigMulSmall(st[1], 2), rem4>>
        ELSE <<BigAdd(BigMulSmall(st[1], 2), <<1>>), BigSub(rem4, cand)>>

RECURSIVE SqrtDigits(_, _)
SqrtDigits(st, n) ==
    IF n = 0 THEN st
    ELSE IF n = 1 THEN SqrtDigit(st)
    ELSE LET half == SqrtDigits(st, n \div 2)
         IN  IF Len(half) = 2 THEN SqrtDigits(half, n - n \div 2) ELSE half

\* math.sqrt(x) for a natural number x: the square root, correctly rounded.
math_sqrt(x) ==
    LET r == Isqrt(x)
    IN  IF r * r = x THEN float(r)
        ELSE LET n == DBL_MANT_DIG + 1 - BitLen(BigFromInt(r))
             IN  Nearest(SqrtDigits(<<BigFromInt(r), BigFromInt(x - r * r)>>, n)[1], -n, TRUE)

\* a + b for two doubles
float_add(a, b) ==
    LET e == Min2(a.exp, b.exp)
    IN  Nearest(BigAdd(BigShl(a.mant, a.exp - e), BigShl(b.mant, b.exp - e)), e, FALSE)

\* a / n for a double a and an integer n, 0 < n <= Limb: the quotient is
\* taken to DivShift binary places more than a has.
float_div(a, n) ==
    LET qr == BigDivSmall(BigShl(a.mant, DivShift), n)
    IN  Nearest(qr.quot, a.exp - DivShift, qr.rem # 0)

\* a < b for two doubles
float_less(a, b) ==
    a # b /\ LET e == Min2(a.exp, b.exp)
             IN  BigLess(BigShl(a.mant, a.exp - e), BigShl(b.mant, b.exp - e))

\* a ** 2 for a double a.  The power is computed by the C library's pow,
\* which is not bound to round correctly: the result is the exact square
\* where it is a double, the nearest double where the square is away from
\* the midpoint of its neighbours, and either neighbour where it is near
\* it.
float_pow2(a) ==
    LET n == Neighbours(BigMul(a.mant, a.mant), 2 * a.exp, FALSE)
    IN  IF n.exact THEN {n.below}
        ELSE IF n.near THEN {n.below, n.above}
        ELSE {Nearest(BigMul(a.mant, a.mant), 2 * a.exp, FALSE)}

\* math.sqrt(x) as dist returns it: the double math_sqrt(x), held by its
\* radicand.
Sqrt(x) == [root_of |-> x]

\* d < e for two such doubles: the roots of two integers below 2^52 round
\* to two doubles in the order of the integers.
Less(d, e) == d.root_of < e.root_of

\* d ** 2 for the radicands of the rows and centroids of the model.
SquaresOfRoots ==
    [x \in 0..(2 * PlaneMaxCoord * PlaneMaxCoord) |-> float_pow2(math_sqrt(x))]

\* d ** 2: the doubles the power of the double d can be.
Squared(d) ==
    IF d.root_of \in DOMAIN SquaresOfRoots
    THEN SquaresOfRoots[d.root_of]
    ELSE float_pow2(math_sqrt(d.root_of))

\* dist(u, v): zip(u, v) pairs the components up to the shorter vector.
dist(u, v) ==
    Sqrt(SumSeq([j \in 1..Min2(Len(u), Len(v)) |-> (u[j] - v[j]) * (u[j] - v[j])]))

\* A variant of min_enumerate that keeps the last minimum.
RECURSIVE min_enumerate_last(_, _, _)
min_enumerate_last(ds, best, j) ==
    IF j > Len(ds) THEN best - 1
    ELSE min_enumerate_last(ds, IF ~Less(ds[best], ds[j]) THEN j ELSE best, j + 1)

\* min(enumerate(ds), key=lambda p: p[1])[0] for a non-empty ds: the scan
\* keeps the element at hand unless a later key is strictly smaller.
\* best and j are positions in ds (from 1); the result is the 0-based index.
RECURSIVE min_enumerate(_, _, _)
min_enumerate(ds, best, j) ==
    IF j > Len(ds) THEN best - 1
    ELSE min_enumerate(ds, IF Less(ds[j], ds[best]) THEN j ELSE best, j + 1)

\* find_closest_centroids: min of an empty sequence raises ValueError.
find_closest_centroids(data, cs) ==
    IF data # <<>> /\ cs = <<>>
    THEN Raise("ValueError")
    ELSE Return([r \in 1..Len(data) |->
             min_enumerate([c \in 1..Len(cs) |-> dist(Features(data[r]), cs[c])],
                           1, 2)])

\* fn(agg, (i, ls)) of compute_centroids; i is the 0-based position of ls.
\* agg[centroid][0] counts the rows, agg[centroid][j] sums ls[j].
fn(agg, i, ls, idx, n) ==
    LET centroid == idx[i + 1]
    IN  [agg EXCEPT ![centroid + 1] =
            [j \in 1..n |-> IF j = 1 THEN @[1] + 1 ELSE @[j] + ls[j]]]

\* reduce(fn, enumerate(monthly_data), sums), from position i on.
RECURSIVE reduce(_, _, _, _, _)
reduce(agg, i, data, idx, n) ==
    IF i = Len(data) THEN agg
    ELSE reduce(fn(agg, i, data[i + 1], idx, n), i + 1, data, idx, n)

\* The subscripts of compute_centroids that raise IndexError:
\* monthly_data[0], indices[i], agg[centroid] and ls[j].
compute_centroids_raises(data, idx, kk) ==
    \/ data = <<>>
    \/ \E i \in 1..Len(data) :
          \/ i > Len(idx)
          \/ idx[i] >= kk
          \/ Len(data[i]) < Len(data[1])

\* A variant of compute_centroids that keeps a centroid of zeros for an
\* index no row is assigned to.
compute_centroids_keep_empty(data, idx, kk) ==
    IF compute_centroids_raises(data, idx, kk) THEN Raise("IndexError")
    ELSE LET n == Len(data[1])
             sums == reduce([c \in 1..kk |-> [j \in 1..n |-> 0]], 0, data, idx, n)
         IN  Return([c \in 1..kk |->
                 [j \in 1..(n - 1) |->
                     IF sums[c][1] = 0 THEN 0
                     ELSE PyRound(sums[c][j + 1], sums[c][1])]])

\* A variant of compute_centroids that truncates the mean.
compute_centroids_truncating(data, idx, kk) ==
    IF compute_centroids_raises(data, idx, kk) THEN Raise("IndexError")
    ELSE LET n == Len(data[1])
             sums == reduce([c \in 1..kk |-> [j \in 1..n |-> 0]], 0, data, idx, n)
             kept == SelectSeq(sums, LAMBDA row : row[1] # 0)
         IN  Return([c \in 1..Len(kept) |->
                 [j \in 1..(n - 1) |-> PyTruncate(kept[c][j + 1], kept[c][1])]])

\* compute_centroids(monthly_data, indices, k)
compute_centroids(data, idx, kk) ==
    IF compute_centroids_raises(data, idx, kk) THEN Raise("IndexError")
    ELSE LET n == Len(data[1])
             sums == reduce([c \in 1..kk |-> [j \in 1..n |-> 0]], 0, data, idx, n)
             kept == SelectSeq(sums, LAMBDA row : row[1] # 0)
         IN  Return([c \in 1..Len(kept) |->
                 [j \in 1..(n - 1) |-> PyRound(kept[c][j + 1], kept[c][1])]])

\* sum(terms) from position i on, acc the sum so far: the doubles are added
\* one by one, in order.  terms[i] is the set of the values the term can
\* have, and the result the set of the values of the sum.
RECURSIVE float_sum(_, _, _)
float_sum(terms, i, acc) ==
    IF i > Len(terms) THEN {acc}
    ELSE UNION {float_sum(terms, i + 1, float_add(acc, t)) : t \in terms[i]}

\* compute_distortion(monthly_data, centroids, indices): the outcomes the
\* call can have.  The sum starts from 0, and 0 + d is d.
compute_distortion(data, cs, idx) ==
    IF \E i \in 1..Len(data) : i > Len(idx) \/ idx[i] >= Len(cs)
    THEN {Raise("IndexError")}
    ELSE IF data = <<>> THEN {Raise("ZeroDivisionError")}
    ELSE {Return(float_div(j, Len(data))) :
             j \in float_sum([i \in 1..Len(data) |->
                                 Squared(dist(Features(data[i]), cs[idx[i] + 1]))],
                             1, float(0))}

(***************************************************************************)
(* The clustering loop of main.  The model's stations have one feature,    *)
(* listed by increasing value (monthly_data is built from a dictionary,    *)
(* in no order of its own), and the initial centroids are any integer      *)
(* vectors of the range.                                                   *)
(***************************************************************************)
StationNames == <<"S1", "S2", "S3", "S4", "S5", "S6", "S7", "S8">>

Coords == 0..MaxCoord

DataSets ==
    {[i \in 1..NumStations |-> <<StationNames[i], xs[i]>>] :
        xs \in {ys \in [1..NumStations -> Coords] :
                   \A i \in 1..(NumStations - 1) : ys[i] <= ys[i + 1]}}

Init ==
    /\ monthly_data \in DataSets
    /\ centroids \in [1..k -> {<<c>> : c \in Coords}]
    /\ indices = <<>>
    /\ verbose \in BOOLEAN
    /\ iter = 0
    /\ printed = <<>>
    /\ pc = "loop"
    /\ GenIdle
    /\ CallIdle

\* One pass of the for loop: the assignment, the update and, when verbose,
\* the distortion printed.  An exception ends the run where it is raised,
\* after the assignments made before it.
Pass ==
    /\ pc = "loop"
    /\ iter < NumIterations
    /\ LET found == find_closest_centroids(monthly_data, centroids)
       IN  IF Raised(found)
           THEN /\ pc' = found.raised
                /\ UNCHANGED <<indices, centroids, iter, printed>>
           ELSE LET updated == compute_centroids(monthly_data, found.returned, k)
                IN  /\ indices' = found.returned
                    /\ IF Raised(updated)
                       THEN /\ pc' = updated.raised
                            /\ UNCHANGED <<centroids, iter, printed>>
                       ELSE /\ centroids' = updated.returned
                            /\ IF verbose
                               THEN \E d \in compute_distortion(monthly_data,
                                               updated.returned, found.returned) :
                                       IF Raised(d)
                                       THEN /\ pc' = d.raised
                                            /\ UNCHANGED <<iter, printed>>
                                       ELSE /\ pc' = pc
                                            /\ iter' = iter + 1
                                            /\ printed' = <<d.returned>>
                               ELSE /\ pc' = pc
                                    /\ iter' = iter + 1
                                    /\ printed' = printed
    /\ UNCHANGED <<monthly_data, verbose, gen_vars, call>>

\* The loop has made its passes: main prints the assignments and returns.
Finish ==
    /\ pc = "loop"
    /\ iter = NumIterations
    /\ pc' = "done"
    /\ UNCHANGED <<monthly_data, centroids, indices, verbose, iter, printed,
                   gen_vars, call>>

Next == Pass \/ Finish

Spec == Init /\ [][Next]_vars

(***************************************************************************)
(* The loop on stations of two features, at distinct points of the plane,  *)
(* listed in the order of their components.  The initial centroids are     *)
(* those of initial_centroid, for a base of two components.                *)
(***************************************************************************)
PlaneCoords == 0..PlaneMaxCoord

\* The sequences of n points of the plane, each after the one before it,
\* that begin after the point <<x0, y0>>.
RECURSIVE Ascending(_, _, _)
Ascending(n, x0, y0) ==
    IF n = 0 THEN {<<>>}
    ELSE UNION {{<<<<x, y>>>> \o rest : rest \in Ascending(n - 1, x, y)} :
                   <<x, y>> \in {p \in PlaneCoords \X PlaneCoords :
                                    p[1] > x0 \/ (p[1] = x0 /\ p[2] > y0)}}

PlaneDataSets ==
    {[i \in 1..NumStations |-> <<StationNames[i]>> \o pts[i]] :
        pts \in Ascending(NumStations, 0, -1)}

PlaneBase == <<0, 0>>

\* initial_centroid(), for the base given and the shift drawn.
initial_centroid(base, shift) == [j \in 1..Len(base) |-> base[j] + shift]

InitPlane ==
    /\ monthly_data \in PlaneDataSets
    /\ centroids \in [1..k -> {initial_centroid(PlaneBase, shift) :
                                  shift \in PlaneCoords}]
    /\ indices = <<>>
    /\ verbose \in BOOLEAN
    /\ iter = 0
    /\ printed = <<>>
    /\ pc = "loop"
    /\ GenIdle
    /\ CallIdle

SpecPlane == InitPlane /\ [][Next]_vars

(***************************************************************************)
(* Single calls of the k-means functions, on every small input and on the  *)
(* inputs of clustering_test.py.  The rows have two features; the ragged   *)
(* inputs mix vectors of one, two and three components.                    *)
(***************************************************************************)
FnCoords == 0..FnMaxCoord
FnSigned == (-FnMaxCoord)..FnMaxCoord

Vectors == {<<x, y>> : x \in FnCoords, y \in FnCoords}
SignedVectors == {<<x, y>> : x \in FnSigned, y \in FnCoords}
RaggedVectors == {<<1>>, <<0, 1>>, <<1, 0, 1>>}

\* The rows <<"", x, y>> of n vectors of V, in every order.
Rows(V, n) == [1..n -> {<<"">> \o v : v \in V}]

\* u comes no later than v in the order of the components.
LexLeq(u, v) == u[2] < v[2] \/ (u[2] = v[2] /\ u[3] <= v[3])

TestFindData == <<<<"", 0, 1>>, <<"", 3, 1>>, <<"", 6, 1>>>>
TestFindCentroids == <<<<0, 0>>, <<3, 4>>, <<6, 0>>>>
TestComputeData == <<<<"", 0, 1>>, <<"", 3, 3>>, <<"", 6, 1>>>>
TestComputeIndices == <<0, 1, 0>>

InitFn ==
    /\ CallIdle
    /\ GenIdle
    /\ MainIdle

Found(data, cs) ==
    [fn |-> "find_closest_centroids", monthly_data |-> data, centroids |-> cs,
     outcome |-> find_closest_centroids(data, cs)]

Computed(data, idx, kk) ==
    [fn |-> "compute_centroids", monthly_data |-> data, indices |-> idx,
     k |-> kk, outcome |-> compute_centroids(data, idx, kk)]

CallFind ==
    /\ call.fn = "none"
    /\ \E n \in 0..FindMaxRows, kk \in 0..FnMaxK :
          \E data \in Rows(Vectors, n), cs \in [1..kk -> Vectors] :
              call' = Found(data, cs)
    /\ UNCHANGED <<gen_vars, main_vars>>

CallFindRagged ==
    /\ call.fn = "none"
    /\ \E n \in 1..2, kk \in 1..2 :
          \E data \in Rows(RaggedVectors, n), cs \in [1..kk -> RaggedVectors] :
              call' = Found(data, cs)
    /\ UNCHANGED <<gen_vars, main_vars>>

\* test_find_closest_centroids
CallFindTest ==
    /\ call.fn = "none"
    /\ call' = Found(TestFindData, TestFindCentroids)
    /\ UNCHANGED <<gen_vars, main_vars>>

\* The rows are listed in the order of their components; the assignment
\* is any with one index per row, below k.
CallCompute ==
    /\ call.fn = "none"
    /\ \E n \in 1..ComputeMaxRows, kk \in 1..FnMaxK :
          \E data \in Rows(SignedVectors, n) :
              /\ \A i \in 1..(n - 1) : LexLeq(data[i], data[i + 1])
              /\ \E idx \in [1..n -> 0..(kk - 1)] :
                     call' = Computed(data, idx, kk)
    /\ UNCHANGED <<gen_vars, main_vars>>

CallComputeRagged ==
    /\ call.fn = "none"
    /\ \E n \in 1..2 :
          \E data \in Rows(RaggedVectors, n), idx \in [1..n -> 0..1] :
              call' = Computed(data, idx, 2)
    /\ UNCHANGED <<gen_vars, main_vars>>

\* test_compute_centroids
CallComputeTest ==
    /\ call.fn = "none"
    /\ call' = Computed(TestComputeData, TestComputeIndices, 2)
    /\ UNCHANGED <<gen_vars, main_vars>>

\* test_dist, and the vectors of the model
CallDist ==
    /\ call.fn = "none"
    /\ \E u \in SignedVectors \cup RaggedVectors \cup {<<3, 4>>},
          v \in Vectors \cup RaggedVectors :
          call' = [fn |-> "dist", u |-> u, v |-> v, outcome |-> Return(dist(u, v))]
    /\ UNCHANGED <<gen_vars, main_vars>>

NextFn ==
    \/ CallFind \/ CallFindRagged \/ CallFindTest
    \/ CallCompute \/ CallComputeRagged \/ CallComputeTest
    \/ CallDist

SpecFn == InitFn /\ [][NextFn]_vars

(***************************************************************************)
(* What the claims are stated with: sums over sets of positions, the       *)
(* squared Euclidean distance and the nearest integer of a quotient.       *)
(***************************************************************************)
RECURSIVE SumOver(_, _)
SumOver(g, S) ==
    IF S = {} THEN 0
    ELSE LET x == CHOOSE y \in S : TRUE
         IN  g[x] + SumOver(g, S \ {x})

SquaredDistance(u, v) ==
    SumOver([j \in 1..Len(u) |-> (u[j] - v[j]) * (u[j] - v[j])], 1..Len(u))

Abs(x) == IF x >= 0 THEN x ELSE -x

\* v is an integer nearest to total / n.
NearestInteger(v, total, n) == 2 * Abs(v * n - total) <= n

\* The feature vectors of the rows and the centroids have one length.
SameLengths(data, cs) ==
    \A a, b \in {Features(data[i]) : i \in 1..Len(data)}
                \cup {cs[c] : c \in 1..Len(cs)} : Len(a) = Len(b)

(***************************************************************************)
(* C1.  find_closest_centroids returns one index per row, in row order:    *)
(* the smallest index of a centroid at minimal Euclidean distance from     *)
(* the row's features.  The rows of the test give <<0, 1, 2>>.             *)
(***************************************************************************)
C1_ClosestCentroid ==
    (/\ call.fn = "find_closest_centroids"
     /\ call.centroids # <<>>
     /\ SameLengths(call.monthly_data, call.centroids))
    => /\ ~Raised(call.outcome)
       /\ LET data == call.monthly_data
              cs == call.centroids
              res == call.outcome.returned
          IN  /\ Len(res) = Len(data)
              /\ \A r \in 1..Len(data) :
                    /\ res[r] \in 0..(Len(cs) - 1)
                    /\ \A c \in 0..(Len(cs) - 1) :
                          LET mine == SquaredDistance(Features(data[r]), cs[res[r] + 1])
                              other == SquaredDistance(Features(data[r]), cs[c + 1])
                          IN  other >= mine /\ (other = mine => c >= res[r])
              /\ (data = TestFindData /\ cs = TestFindCentroids)
                    => res = <<0, 1, 2>>

\* Two rows, the second at one minimal distance from two centroids and
\* given the first of them, which is not the first centroid.
C1_Witness ==
    /\ call.fn = "find_closest_centroids"
    /\ SameLengths(call.monthly_data, call.centroids)
    /\ Len(call.monthly_data) = 2
    /\ Len(call.centroids) >= 2
    /\ call.outcome.returned[1] = 1
    /\ \E c \in 1..(Len(call.centroids) - 1) :
          /\ call.outcome.returned[2] = c - 1
          /\ SquaredDistance(Features(call.monthly_data[2]), call.centroids[c])
             = SquaredDistance(Features(call.monthly_data[2]), call.centroids[c + 1])

\* The rows assigned to index c.
Assigned(idx, c) == {i \in 1..Len(idx) : idx[i] = c}

\* The place of c among the indices some row is assigned to, from 1.
Rank(idx, c) == Cardinality({b \in 0..c : Assigned(idx, b) # {}})

IsMeanOf(vec, data, rows) ==
    /\ Len(vec) = Len(data[1]) - 1
    /\ \A j \in 1..Len(vec) :
          NearestInteger(vec[j],
                         SumOver([i \in rows |-> data[i][j + 1]], rows),
                         Cardinality(rows))

(***************************************************************************)
(* C2.  For every centroid index c with an assigned row,                   *)
(* compute_centroids returns for c (as the entry of c's rank among the     *)
(* indices in use) the vector of the means, rounded to the nearest         *)
(* integer, of the features of exactly the rows assigned to c.  The test   *)
(* gives <<<<3, 1>>, <<3, 3>>>>.                                           *)
(***************************************************************************)
C2_CentroidIsRoundedMean ==
    (/\ call.fn = "compute_centroids"
     /\ SameLengths(call.monthly_data, <<>>))
    => /\ ~Raised(call.outcome)
       /\ LET data == call.monthly_data
              idx == call.indices
              res == call.outcome.returned
          IN  /\ \A c \in 0..(call.k - 1) :
                    Assigned(idx, c) # {}
                    => /\ Rank(idx, c) <= Len(res)
                       /\ IsMeanOf(res[Rank(idx, c)], data, Assigned(idx, c))
              /\ (data = TestComputeData /\ idx = TestComputeIndices /\ call.k = 2)
                    => res = <<<<3, 1>>, <<3, 3>>>>

\* Three rows in two clusters, one of them of two rows whose mean is no
\* integer.
C2_Witness ==
    /\ call.fn = "compute_centroids"
    /\ SameLengths(call.monthly_data, <<>>)
    /\ Len(call.monthly_data) = 3
    /\ Len(call.outcome.returned) = 2
    /\ \E c \in 0..(call.k - 1) :
          LET rows == Assigned(call.indices, c)
          IN  /\ Cardinality(rows) = 2
              /\ SumOver([i \in rows |-> call.monthly_data[i][2]], rows) % 2 = 1

\* The call was given vectors of unequal length.
CallHasUnequalLengths ==
    CASE call.fn = "find_closest_centroids"
            -> ~SameLengths(call.monthly_data, call.centroids)
      [] call.fn = "compute_centroids"
            -> ~SameLengths(call.monthly_data, <<>>)
      [] call.fn = "dist" -> Len(call.u) # Len(call.v)
      [] OTHER -> FALSE

(***************************************************************************)
(* C8.  Vectors of unequal length are detected: a call given them ends     *)
(* in DimensionMismatch and returns nothing.                               *)
(***************************************************************************)
C8_MismatchIsFatal ==
    CallHasUnequalLengths
    => Raised(call.outcome) /\ call.outcome.raised = "DimensionMismatch"

(***************************************************************************)
(* C3.  The distortion printed by a pass of the loop is at most the        *)
(* distortion printed by the pass before it.                               *)
(***************************************************************************)
C3_DistortionNeverIncreases ==
    [][(printed # <<>> /\ printed' # <<>> /\ iter' = iter + 1)
          => ~float_less(printed[1], printed'[1])]_vars

\* The indices some station is assigned to.
IndicesInUse == {indices[i] : i \in 1..Len(indices)}

(***************************************************************************)
(* C4.  After an update the Cluster Set holds one centroid for each index  *)
(* in use and none for the others; its size never exceeds k and never      *)
(* grows from one pass to the next.                                        *)
(***************************************************************************)
C4_ClusterSetShrinks ==
    /\ [](/\ Len(centroids) <= k
          /\ indices # <<>> => Len(centroids) = Cardinality(IndicesInUse))
    /\ [][Len(centroids') <= Len(centroids)]_vars

\* A centroid was dropped and the loop went on without it.
C4_Witness ==
    /\ pc = "loop"
    /\ iter >= 2
    /\ Len(centroids) < k
    /\ Len(centroids) >= 2

(***************************************************************************)
(* C9.  The loop makes exactly NumIterations passes and then ends,         *)
(* whatever the verbose flag: the run never stops before.                  *)
(***************************************************************************)
C9_AllPassesMade ==
    pc = "loop" \/ (pc = "done" /\ iter = NumIterations)

(***************************************************************************)
(* C10.  After a pass, every station's index is a position of the          *)
(* centroid list and the centroid there is the rounded mean of exactly     *)
(* the stations with that index.                                           *)
(***************************************************************************)
C10_IndicesMatchCentroids ==
    indices # <<>>
    => \A i \in 1..Len(indices) :
          /\ indices[i] < Len(centroids)
          /\ IsMeanOf(centroids[indices[i] + 1], monthly_data,
                      Assigned(indices, indices[i]))

(***************************************************************************)
(* The claims about data_gen are stated on the file: its runs (maximal     *)
(* stretches of rows of one station) and the rows of a run that are        *)
(* included (an eligible station, a year of 1981..2010).                   *)
(***************************************************************************)
\* The last rows of the runs that ended within the first p rows, the row
\* after the run being one of the p.
RunEnds(p) == {b \in 1..(p - 1) : f[b].station_id # f[b + 1].station_id}

RunStart(b) ==
    CHOOSE a \in 1..b :
        /\ \A j \in a..b : f[j].station_id = f[b].station_id
        /\ a = 1 \/ f[a - 1].station_id # f[b].station_id

Included(b) ==
    {j \in RunStart(b)..b :
        /\ f[j].station_id \in {"A", "B"}
        /\ f[j].yr >= 1981
        /\ f[j].yr <= 2010}

\* The runs, among those ended within p rows, with more than 20 included
\* rows, and the e-th of them in file order.
Passing(p) == {b \in RunEnds(p) : Cardinality(Included(b)) > 20}

NthPassing(p, e) ==
    CHOOSE b \in Passing(p) : Cardinality({c \in Passing(p) : c <= b}) = e

\* The readings of month m of the run that are not the sentinel.
Present(b, m) == {j \in Included(b) : f[j].vals[m] # -9999}

\* The dictionary is the one data_gen was given: the consumer has deleted
\* no key.
Undisturbed == station_ids = stationid_latlons

(***************************************************************************)
(* C5.  Every pair yielded is the pair of a run with more than 20          *)
(* included rows, and no run is yielded twice; left to itself, the         *)
(* generator yields, in order, the runs that passed.  A run with 20        *)
(* included rows or fewer yields nothing.                                  *)
(***************************************************************************)
C5_YieldedOnlyAboveThreshold ==
    /\ Len(yielded) <= Cardinality(Passing(pos))
    /\ \A e \in 1..Len(yielded) :
          \E b \in Passing(pos) : yielded[e][1] = f[b].station_id
    /\ Undisturbed
       => \A e \in 1..Len(yielded) :
             yielded[e][1] = f[NthPassing(pos, e)].station_id

\* A run of an eligible station with exactly 20 included rows, and rows
\* outside the window besides, has ended and nothing was yielded for it.
C5_Witness ==
    /\ gen_pc = "done"
    /\ Undisturbed
    /\ yielded = <<>>
    /\ \E b \in RunEnds(pos) :
          /\ Cardinality(Included(b)) = 20
          /\ b - RunStart(b) + 1 > 20

\* The rows of each station are contiguous in the file.
Contiguous ==
    \A b \in RunEnds(Len(f)) :
        \A j \in (b + 1)..Len(f) : f[j].station_id # f[b].station_id

IncludedOf(s) ==
    {j \in 1..Len(f) : f[j].station_id = s /\ f[j].yr >= 1981 /\ f[j].yr <= 2010}

(***************************************************************************)
(* C6.  When the rows of each station are contiguous and the whole file    *)
(* was consumed, exactly one pair was yielded for every eligible station   *)
(* with more than 20 included rows, wherever it is in the file.            *)
(***************************************************************************)
C6_OnePairPerPassingStation ==
    (gen_pc = "done" /\ Contiguous /\ Undisturbed)
    => \A s \in {"A", "B"} :
          Cardinality({e \in 1..Len(yielded) : yielded[e][1] = s})
          = IF Cardinality(IncludedOf(s)) > 20 THEN 1 ELSE 0

\* Some month of the run has no reading but the sentinel.
Blank(b) == \E m \in 1..12 : Present(b, m) = {}

(***************************************************************************)
(* C7.  A run that passes the filter with a month whose readings are all   *)
(* the sentinel makes avg_monthly_values raise ZeroDivisionError: nothing  *)
(* is yielded for it and the generator never gets past it (the run's last  *)
(* row and the row after it are the last rows fetched).  Otherwise the     *)
(* sentinel is left out of the sum and of the count of its month: the      *)
(* vector yielded is the rounded mean of the readings present.             *)
(***************************************************************************)
C7_MissingReadings ==
    Undisturbed
    => /\ \A b \in Passing(pos) :
             Blank(b) => gen_pc = "ZeroDivisionError" /\ b = pos - 1
       /\ gen_pc = "ZeroDivisionError"
          => /\ pos - 1 \in Passing(pos)
             /\ Blank(pos - 1)
             /\ Len(yielded) = Cardinality(Passing(pos)) - 1
       /\ \A e \in 1..Len(yielded) :
             LET b == NthPassing(pos, e)
             IN  /\ Len(yielded[e][2]) = 12
                 /\ \A m \in 1..12 :
                       NearestInteger(yielded[e][2][m],
                           SumOver([j \in Present(b, m) |-> f[j].vals[m]],
                                   Present(b, m)),
                           Cardinality(Present(b, m)))

\* The generator has raised on a run that passed the filter, the row
\* after the run fetched.
C7_Witness ==
    /\ gen_pc = "ZeroDivisionError"
    /\ Undisturbed
    /\ Cardinality(Included(pos - 1)) > 20
    /\ pos = RunStart(pos - 1) + 21

\* A vector was yielded for a run with sentinel readings in a month that
\* has other readings.
C7_SentinelSkipped ==
    /\ yielded # <<>>
    /\ Undisturbed
    /\ \E m \in 1..12 :
          LET b == NthPassing(pos, 1)
          IN  Present(b, m) # {} /\ Present(b, m) # Included(b)

====
